---- MODULE Spec2Model ----
(***************************************************************************)
(* check-tempager-3e-temperature: one invocation of the Sensu check.       *)
(* The plugin framework calls checkArgs, then executeCheck when checkArgs  *)
(* returned no error.  executeCheck connects to the unit over SNMP v1,     *)
(* issues one Get for three oids, type-checks the three values and         *)
(* compares the external temperature against the two thresholds.           *)
(*                                                                         *)
(* Text is modelled as sequences of one-character strings where the code   *)
(* parses it (the target), and as TLA+ strings where it only prints it.    *)
(* A float64 temperature is modelled exactly, in thousandths of a degree.  *)
(***************************************************************************)
EXTENDS Integers, Sequences, FiniteSets, TLC

VARIABLES
    plugin,     \* the Config the options bind: Target, Community, Warning, Critical
    snmp,       \* gosnmp.Default: Target, Community, Version
    conn,       \* gosnmp.Default.Conn: "nil", "open" or "closed"
    deferred,   \* TRUE once "defer gosnmp.Default.Conn.Close()" has been executed
    result,     \* result.Variables of the Get, a sequence of values
    stdout,     \* the lines printed with fmt.Printf, in order
    argsRet,    \* what checkArgs returned: [state, err], state = NoStatus before the call
    status,     \* what the invocation returned as its check state, NoStatus before
    panicked,   \* TRUE when executeCheck ended in a run-time panic
    pc,         \* position: "checkArgs", "connect", "get", "interpret", "done"
    connErr,    \* what Connect() returned: "unset", "nil" or "error"
    getErr,     \* what Get() returned as its error: "unset", "nil" or "error"
    connects,   \* number of gosnmp.Default.Connect() calls issued
    reads,      \* number of gosnmp.Default.Get() calls issued
    closes      \* number of Conn.Close() calls issued

vars == <<plugin, snmp, conn, deferred, result, stdout, argsRet, status,
          panicked, pc, connErr, getErr, connects, reads, closes>>

----------------------------------------------------------------------------
(* Constants of the program and of the libraries it names.                 *)

Name == "check-tempager-3e-temperature"

CheckStateOK == 0
CheckStateWarning == 1
CheckStateCritical == 2
\* no check state: nothing was returned
NoStatus == CheckStateOK - 1

NilErr == "nil"
ErrMissingTarget == "target unit must be specified."
ErrInvalidTarget == "target must be an IP address."

DefaultCommunity == "public"
DefaultWarning == 35000
DefaultCritical == 40000

\* thousandths of a degree per raw unit: raw / 100.0 degrees
MilliPerRaw == 10

----------------------------------------------------------------------------
(* Bounds of the model.                                                    *)

\* raw readings are taken within Spread of each point of interest
Spread == 1
\* a Get response carries at most MaxVars values
MaxVars == 3

----------------------------------------------------------------------------
(* net.ParseIP, as checkArgs calls it: nil or an address.  Only whether    *)
(* the result is nil matters to checkArgs, so the operators return         *)
(* booleans.                                                               *)

Digits == <<"0", "1", "2", "3", "4", "5", "6", "7", "8", "9">>
HexDigits == Digits \o <<"a", "b", "c", "d", "e", "f">>
HexUpper == <<"A", "B", "C", "D", "E", "F">>

IsDigit(c) == \E i \in 1..Len(Digits) : Digits[i] = c
IsHex(c) == \/ \E i \in 1..Len(HexDigits) : HexDigits[i] = c
            \/ \E i \in 1..Len(HexUpper) : HexUpper[i] = c
HexVal(c) == IF \E i \in 1..Len(HexDigits) : HexDigits[i] = c
             THEN (CHOOSE i \in 1..Len(HexDigits) : HexDigits[i] = c) - 1
             ELSE (CHOOSE i \in 1..Len(HexUpper) : HexUpper[i] = c) + 9

Drop(s, n) == SubSeq(s, n + 1, Len(s))

\* the overflow guard of dtoi and xtoi
BigNum == 16777215

\* dtoi: the decimal number at the start of s: [n, c, ok], c characters used
RECURSIVE dtoiFrom(_, _, _)
dtoiFrom(s, i, n) ==
    IF i <= Len(s) /\ IsDigit(s[i])
    THEN LET m == n * 10 + HexVal(s[i]) IN
         IF m >= BigNum THEN [n |-> BigNum, c |-> i, ok |-> FALSE]
         ELSE dtoiFrom(s, i + 1, m)
    ELSE IF i = 1 THEN [n |-> 0, c |-> 0, ok |-> FALSE]
    ELSE [n |-> n, c |-> i - 1, ok |-> TRUE]
dtoi(s) == dtoiFrom(s, 1, 0)

\* xtoi: the hexadecimal number at the start of s
RECURSIVE xtoiFrom(_, _, _)
xtoiFrom(s, i, n) ==
    IF i <= Len(s) /\ IsHex(s[i])
    THEN LET m == n * 16 + HexVal(s[i]) IN
         IF m >= BigNum THEN [n |-> 0, c |-> i, ok |-> FALSE]
         ELSE xtoiFrom(s, i + 1, m)
    ELSE IF i = 1 THEN [n |-> 0, c |-> 0, ok |-> FALSE]
    ELSE [n |-> n, c |-> i - 1, ok |-> TRUE]
xtoi(s) == xtoiFrom(s, 1, 0)

\* parseIPv4: four decimal fields 0..255 separated by dots, no leading zero
RECURSIVE parseIPv4From(_, _)
parseIPv4From(s, i) ==
    IF i = 4 THEN Len(s) = 0
    ELSE IF Len(s) = 0 THEN FALSE
    ELSE IF i > 0 /\ s[1] # "." THEN FALSE
    ELSE LET t == IF i > 0 THEN Drop(s, 1) ELSE s
             d == dtoi(t)
         IN IF ~d.ok \/ d.n > 255 THEN FALSE
            ELSE IF d.c > 1 /\ t[1] = "0" THEN FALSE
            ELSE parseIPv4From(Drop(t, d.c), i + 1)
parseIPv4(s) == parseIPv4From(s, 0)

\* the end of parseIPv6: the whole string was used, and the ellipsis stands
\* for at least one group exactly when fewer than 16 bytes were parsed
ipv6Finish(rest, i, ellipsis) ==
    /\ Len(rest) = 0
    /\ IF i < 16 THEN ellipsis >= 0 ELSE ellipsis < 0

\* parseIPv6: the loop over 16-bit groups; i is the byte index, ellipsis the
\* byte index of "::" or -1
RECURSIVE parseIPv6Loop(_, _, _)
parseIPv6Loop(s, i, ellipsis) ==
    IF i >= 16 THEN ipv6Finish(s, i, ellipsis)
    ELSE LET x == xtoi(s) IN
      IF ~x.ok \/ x.n > 65535 THEN FALSE
      ELSE IF x.c < Len(s) /\ s[x.c + 1] = "."
      THEN \* a trailing dotted quad
           IF ellipsis < 0 /\ i # 12 THEN FALSE
           ELSE IF i + 4 > 16 THEN FALSE
           ELSE IF ~parseIPv4(s) THEN FALSE
           ELSE ipv6Finish(<<>>, i + 4, ellipsis)
      ELSE LET rest == Drop(s, x.c)
               j == i + 2
           IN IF Len(rest) = 0 THEN ipv6Finish(rest, j, ellipsis)
              ELSE IF rest[1] # ":" \/ Len(rest) = 1 THEN FALSE
              ELSE LET r2 == Drop(rest, 1) IN
                   IF r2[1] = ":"
                   THEN IF ellipsis >= 0 THEN FALSE
                        ELSE IF Len(r2) = 1 THEN ipv6Finish(<<>>, j, j)
                        ELSE parseIPv6Loop(Drop(r2, 1), j, j)
                   ELSE parseIPv6Loop(r2, j, ellipsis)

parseIPv6(s) ==
    IF Len(s) >= 2 /\ s[1] = ":" /\ s[2] = ":"
    THEN IF Len(s) = 2 THEN TRUE ELSE parseIPv6Loop(Drop(s, 2), 0, 0)
    ELSE parseIPv6Loop(s, 0, -1)

\* ParseIP: the first "." or ":" decides the family; TRUE when not nil
RECURSIVE ParseIPFrom(_, _)
ParseIPFrom(s, i) ==
    IF i > Len(s) THEN FALSE
    ELSE IF s[i] = "." THEN parseIPv4(s)
    ELSE IF s[i] = ":" THEN parseIPv6(s)
    ELSE ParseIPFrom(s, i + 1)
ParseIP(s) == ParseIPFrom(s, 1)

----------------------------------------------------------------------------
(* The inputs of one invocation.                                           *)

EmptyTarget == <<>>
\* "10.0.0.5", "::1", "2001:db8::10.0.0.5": addresses
ValidIPs ==
    { <<"1", "0", ".", "0", ".", "0", ".", "5">>,
      <<":", ":", "1">>,
      <<"2", "0", "0", "1", ":", "d", "b", "8", ":", ":", "1", "0", ".",
        "0", ".", "0", ".", "5">> }
\* "not-an-ip", "tempager.lan", "256.0.0.1", "10.0.0", "1::2::3", "10.0.0.5:161"
NonIPs ==
    { <<"n", "o", "t", "-", "a", "n", "-", "i", "p">>,
      <<"t", "e", "m", "p", "a", "g", "e", "r", ".", "l", "a", "n">>,
      <<"2", "5", "6", ".", "0", ".", "0", ".", "1">>,
      <<"1", "0", ".", "0", ".", "0">>,
      <<"1", ":", ":", "2", ":", ":", "3">>,
      <<"1", "0", ".", "0", ".", "0", ".", "5", ":", "1", "6", "1">> }
Targets == {EmptyTarget} \cup ValidIPs \cup NonIPs

Communities == {DefaultCommunity, "private"}
Warnings == {DefaultWarning, DefaultWarning + 5}
Criticals == {DefaultCritical, DefaultWarning}

Locations == {"Server Room", "Rack 4"}
\* raw readings around the two default thresholds, and one below zero
Raws == UNION {((t \div MilliPerRaw) - Spread)..((t \div MilliPerRaw) + Spread) :
                   t \in {DefaultWarning, DefaultCritical}}
        \cup {-550}

\* a value of an SnmpPDU, by its Go representation: OctetString is []uint8,
\* Integer is int, Gauge32 is uint, Null is nil
OctetString(b) == [type |-> "OctetString", bytes |-> b, int |-> 0]
Integer(n) == [type |-> "Integer", bytes |-> "", int |-> n]
Gauge32(n) == [type |-> "Gauge32", bytes |-> "", int |-> n]
Null == [type |-> "Null", bytes |-> "", int |-> 0]

Values == {OctetString(l) : l \in Locations} \cup {Integer(n) : n \in Raws}
          \cup {Gauge32(DefaultCritical \div MilliPerRaw), Null}
\* what a Get that reports no error may carry
Responses == UNION {[1..k -> Values] : k \in 0..MaxVars}

----------------------------------------------------------------------------
(* checkArgs                                                               *)

checkArgsNoEmptyTest(target) ==
    IF ~ParseIP(target)
    THEN [state |-> CheckStateCritical, err |-> ErrInvalidTarget]
    ELSE [state |-> CheckStateOK, err |-> NilErr]

checkArgsNoParse(target) ==
    IF target = EmptyTarget
    THEN [state |-> CheckStateCritical, err |-> ErrMissingTarget]
    ELSE [state |-> CheckStateOK, err |-> NilErr]

checkArgs(target) ==
    IF target = EmptyTarget
    THEN [state |-> CheckStateCritical, err |-> ErrMissingTarget]
    ELSE IF ~ParseIP(target)
    THEN [state |-> CheckStateCritical, err |-> ErrInvalidTarget]
    ELSE [state |-> CheckStateOK, err |-> NilErr]

----------------------------------------------------------------------------
(* executeCheck                                                            *)

\* one fmt.Printf("%s <SEV>: <text>\n", plugin.PluginConfig.Name, ...)
Line(sev, text) == [name |-> Name, sev |-> sev, text |-> text]
Render(l) == l.name \o " " \o l.sev \o ": " \o l.text

\* a return of executeCheck: the check state and what was printed before it
Returned(state, sev, text) ==
    [panic |-> FALSE, state |-> state, out |-> <<Line(sev, text)>>]
\* an index out of range on result.Variables: nothing printed, nothing returned
Panic == [panic |-> TRUE, state |-> NoStatus, out |-> <<>>]

connectFailure ==
    Returned(CheckStateCritical, "CRITICAL", "failed to connect to tempager.")

getFailureWarning ==
    Returned(CheckStateWarning, "WARNING", "failed to gather oids.")

getFailure ==
    Returned(CheckStateCritical, "CRITICAL", "failed to gather oids.")

locationFailure ==
    Returned(CheckStateCritical, "CRITICAL", "failed to read location.")
internalFailure ==
    Returned(CheckStateCritical, "CRITICAL", "failed to read internal temperature.")
externalFailure ==
    Returned(CheckStateCritical, "CRITICAL", "failed to read external temperature.")

\* the type assertions .([]uint8) and .(int)
IsBytes(v) == v.type = "OctetString"
IsInt(v) == v.type = "Integer"

\* float64(raw) / 100.0, in thousandths of a degree
Celsius(raw) == raw * MilliPerRaw

\* the verb %.2f applied to a temperature
Abs(n) == IF n < 0 THEN -n ELSE n
Fmt2(t) ==
    LET cents == Abs(t) \div MilliPerRaw
        frac == cents % 100
    IN (IF t < 0 THEN "-" ELSE "") \o ToString(cents \div 100) \o "."
       \o (IF frac < 10 THEN "0" ELSE "") \o ToString(frac)

perfData(internal, external) ==
    "tempager_internal=" \o Fmt2(internal) \o ", tempager_external=" \o Fmt2(external)
temperatureLine(location, internal, external) ==
    location \o " temperature is " \o Fmt2(external) \o "c | "
    \o perfData(internal, external)

SeverityInclusive(external, warning, critical) ==
    IF external >= critical THEN "CRITICAL"
    ELSE IF external >= warning THEN "WARNING"
    ELSE "OK"

\* the two comparisons at the end of executeCheck
Severity(external, warning, critical) ==
    IF external > critical THEN "CRITICAL"
    ELSE IF external > warning THEN "WARNING"
    ELSE "OK"

StateOf(sev) ==
    IF sev = "CRITICAL" THEN CheckStateCritical
    ELSE IF sev = "WARNING" THEN CheckStateWarning
    ELSE CheckStateOK

Report(location, internal, external, sev) ==
    Returned(StateOf(sev), sev, temperatureLine(location, internal, external))

Max(a, b) == IF a > b THEN a ELSE b

interpretInternalFirst(vs, warning, critical) ==
    IF Len(vs) < 2 THEN Panic
    ELSE IF ~IsInt(vs[2]) THEN internalFailure
    ELSE IF ~IsBytes(vs[1]) THEN locationFailure
    ELSE IF Len(vs) < 3 THEN Panic
    ELSE IF ~IsInt(vs[3]) THEN externalFailure
    ELSE Report(vs[1].bytes, Celsius(vs[2].int), Celsius(vs[3].int),
                Severity(Celsius(vs[3].int), warning, critical))

interpretHottest(vs, warning, critical) ==
    IF Len(vs) < 1 THEN Panic
    ELSE IF ~IsBytes(vs[1]) THEN locationFailure
    ELSE IF Len(vs) < 2 THEN Panic
    ELSE IF ~IsInt(vs[2]) THEN internalFailure
    ELSE IF Len(vs) < 3 THEN Panic
    ELSE IF ~IsInt(vs[3]) THEN externalFailure
    ELSE Report(vs[1].bytes, Celsius(vs[2].int), Celsius(vs[3].int),
                Severity(Max(Celsius(vs[2].int), Celsius(vs[3].int)),
                         warning, critical))

\* executeCheck from the first type assertion to its last return: vs is
\* result.Variables
interpret(vs, warning, critical) ==
    IF Len(vs) < 1 THEN Panic
    ELSE IF ~IsBytes(vs[1]) THEN locationFailure
    ELSE IF Len(vs) < 2 THEN Panic
    ELSE IF ~IsInt(vs[2]) THEN internalFailure
    ELSE IF Len(vs) < 3 THEN Panic
    ELSE IF ~IsInt(vs[3]) THEN externalFailure
    ELSE Report(vs[1].bytes, Celsius(vs[2].int), Celsius(vs[3].int),
                Severity(Celsius(vs[3].int), warning, critical))

deferredClosesOnReturnOnly(registered, how) ==
    IF registered /\ how = "return" THEN 1 ELSE 0

\* the Close() calls the deferred statement makes when executeCheck is left,
\* by a return or by a panic
deferredCloses(registered, how) == IF registered THEN 1 ELSE 0

pcAfterGetRetry(err) == IF err = "nil" THEN "interpret" ELSE "get"

\* where executeCheck goes after the Get
pcAfterGet(err) == IF err = "nil" THEN "interpret" ELSE "done"

----------------------------------------------------------------------------
(* The state machine of one invocation.                                    *)

Init ==
    /\ plugin \in [Target : Targets, Community : Communities,
                   Warning : Warnings, Critical : Criticals]
    /\ snmp = [Target |-> EmptyTarget, Community |-> DefaultCommunity,
               Version |-> "Version2c"]
    /\ conn = "nil"
    /\ deferred = FALSE
    /\ result = <<>>
    /\ stdout = <<>>
    /\ argsRet = [state |-> NoStatus, err |-> NilErr]
    /\ status = NoStatus
    /\ panicked = FALSE
    /\ pc = "checkArgs"
    /\ connErr = "unset"
    /\ getErr = "unset"
    /\ connects = 0
    /\ reads = 0
    /\ closes = 0

\* leaving executeCheck with outcome r: the deferred Close runs, then the
\* check state is handed back
Leave(r) ==
    LET n == deferredCloses(deferred, IF r.panic THEN "panic" ELSE "return") IN
    /\ stdout' = stdout \o r.out
    /\ status' = r.state
    /\ panicked' = r.panic
    /\ closes' = closes + n
    /\ conn' = IF n > 0 THEN "closed" ELSE conn
    /\ pc' = "done"

\* the framework calls checkArgs, and executeCheck only when err is nil
CheckArgs ==
    /\ pc = "checkArgs"
    /\ LET r == checkArgs(plugin.Target) IN
       /\ argsRet' = r
       /\ IF r.err = NilErr
          THEN pc' = "connect" /\ status' = status
          ELSE pc' = "done" /\ status' = r.state
    /\ UNCHANGED <<plugin, snmp, conn, deferred, result, stdout, panicked,
                   connErr, getErr, connects, reads, closes>>

\* executeCheck up to and including the defer statement
Connect ==
    /\ pc = "connect"
    /\ snmp' = [Target |-> plugin.Target, Community |-> plugin.Community,
                Version |-> "Version1"]
    /\ connects' = connects + 1
    /\ \E e \in {"nil", "error"} :
         /\ connErr' = e
         /\ IF e = "error"
            THEN /\ Leave(connectFailure)
                 /\ UNCHANGED deferred
            ELSE /\ conn' = "open"
                 /\ deferred' = TRUE
                 /\ pc' = "get"
                 /\ UNCHANGED <<stdout, status, panicked, closes>>
    /\ UNCHANGED <<plugin, result, argsRet, getErr, reads>>

\* the Get of the three oids
GetError ==
    /\ pc = "get"
    /\ reads' = reads + 1
    /\ getErr' = "error"
    /\ IF pcAfterGet("error") = "done"
       THEN Leave(getFailure)
       ELSE /\ stdout' = stdout \o getFailure.out
            /\ pc' = pcAfterGet("error")
            /\ UNCHANGED <<status, panicked, closes, conn>>
    /\ UNCHANGED <<plugin, snmp, deferred, result, argsRet, connErr, connects>>

GetResult ==
    /\ pc = "get"
    /\ reads' = reads + 1
    /\ getErr' = "nil"
    /\ \E vs \in Responses : result' = vs
    /\ pc' = pcAfterGet("nil")
    /\ UNCHANGED <<plugin, snmp, conn, deferred, stdout, argsRet, status,
                   panicked, connErr, connects, closes>>

\* the type assertions, the report and the return
Interpret ==
    /\ pc = "interpret"
    /\ Leave(interpret(result, plugin.Warning, plugin.Critical))
    /\ UNCHANGED <<plugin, snmp, deferred, result, argsRet, connErr, getErr,
                   connects, reads>>

Next == CheckArgs \/ Connect \/ GetError \/ GetResult \/ Interpret

Spec == Init /\ [][Next]_vars

----------------------------------------------------------------------------
(* What a finished invocation amounts to.                                  *)

Done == pc = "done"

\* the Get reported no error and the three type assertions succeeded
TypesOK ==
    /\ getErr = "nil"
    /\ Len(result) >= 3
    /\ IsBytes(result[1]) /\ IsInt(result[2]) /\ IsInt(result[3])

\* the first of the three fields whose type assertion fails, "none" if no
\* value that is present fails
FirstBadField ==
    IF getErr # "nil" THEN "none"
    ELSE IF Len(result) >= 1 /\ ~IsBytes(result[1]) THEN "location"
    ELSE IF Len(result) >= 2 /\ IsBytes(result[1]) /\ ~IsInt(result[2])
         THEN "internal temperature"
    ELSE IF Len(result) >= 3 /\ IsBytes(result[1]) /\ IsInt(result[2])
            /\ ~IsInt(result[3])
         THEN "external temperature"
    ELSE "none"

\* the named error of the run, by what went into it
ErrorOf ==
    IF plugin.Target = EmptyTarget THEN "MissingTarget"
    ELSE IF plugin.Target \in NonIPs THEN "InvalidTarget"
    ELSE IF connErr = "error" THEN "ConnectionError"
    ELSE IF getErr = "error" THEN "ReadError"
    ELSE IF FirstBadField = "location" THEN "LocationTypeError"
    ELSE IF FirstBadField = "internal temperature" THEN "InternalTempTypeError"
    ELSE IF FirstBadField = "external temperature" THEN "ExternalTempTypeError"
    ELSE "none"

\* the status lines of the run: those executeCheck printed, and the message
\* checkArgs handed back as its error for the framework to report
StatusLines ==
    stdout \o (IF argsRet.err = NilErr THEN <<>> ELSE <<argsRet.err>>)

----------------------------------------------------------------------------
(* The claims.                                                             *)

\* C1: once the read and the three type checks have succeeded, the check
\* returns CRITICAL when the external temperature is above critical, else
\* WARNING when it is above warning, else OK; a reading equal to a threshold
\* does not reach that threshold's severity.
C1_SeverityStrict ==
    (Done /\ TypesOK) =>
        LET e == result[3].int IN
        /\ (e * MilliPerRaw > plugin.Critical) => status = CheckStateCritical
        /\ (e * MilliPerRaw <= plugin.Critical /\ e * MilliPerRaw > plugin.Warning)
               => status = CheckStateWarning
        /\ (e * MilliPerRaw <= plugin.Critical /\ e * MilliPerRaw <= plugin.Warning)
               => status = CheckStateOK

\* a reading equal to critical and above warning was classified WARNING
C1_Witness ==
    /\ Done /\ TypesOK
    /\ result[3].int * MilliPerRaw = plugin.Critical
    /\ plugin.Critical > plugin.Warning
    /\ status = CheckStateWarning

\* C2: checkArgs gives the missing-target error for the empty target, the
\* invalid-target error for a non-empty target that is no IP address, and OK
\* with no error for an IP address; it changes nothing but its result.
C2_CheckArgsClassifies ==
    [][pc = "checkArgs" =>
        /\ plugin.Target = EmptyTarget =>
             argsRet' = [state |-> CheckStateCritical, err |-> ErrMissingTarget]
        /\ plugin.Target \in NonIPs =>
             argsRet' = [state |-> CheckStateCritical, err |-> ErrInvalidTarget]
        /\ plugin.Target \in ValidIPs =>
             argsRet' = [state |-> CheckStateOK, err |-> NilErr]
        /\ UNCHANGED <<plugin, snmp, conn, deferred, result, stdout,
                       connects, reads, closes>>]_vars

\* checkArgs has rejected the empty target as missing
C2_Witness ==
    /\ plugin.Target = EmptyTarget
    /\ argsRet.err = ErrMissingTarget
    /\ Done

\* C3: no connect and no read is attempted unless checkArgs has returned OK
\* with no error, and none in a run whose target is empty or no IP address.
C3_ValidateBeforeNetwork ==
    (connects > 0 \/ reads > 0 \/ pc \in {"get", "interpret"}) =>
        /\ argsRet = [state |-> CheckStateOK, err |-> NilErr]
        /\ plugin.Target \in ValidIPs

\* a connect and a read were made after checkArgs returned OK
C3_Witness ==
    /\ connects = 1 /\ reads = 1
    /\ argsRet.state = CheckStateOK /\ argsRet.err = NilErr

\* C4: every run that ends in one of the seven errors returns CRITICAL, and
\* WARNING is returned only when connect, read and type checks succeeded.
C4_ErrorsAreCritical ==
    Done =>
        /\ ErrorOf # "none" => status = CheckStateCritical
        /\ status = CheckStateWarning => (connErr = "nil" /\ TypesOK)
        /\ status = CheckStateOK => (connErr = "nil" /\ TypesOK)

\* a read error ended the run with CRITICAL
C4_Witness ==
    Done /\ ErrorOf = "ReadError" /\ status = CheckStateCritical

\* C5: at most one connect and one read per run; one read exactly when the
\* connect succeeded; none after a failed validation or a failed connect; no
\* further connect or read after a connection or read error.
C5_OneConnectOneRead ==
    /\ connects <= 1 /\ reads <= 1
    /\ Done => reads = (IF connErr = "nil" THEN 1 ELSE 0)
    /\ argsRet.err # NilErr => (connects = 0 /\ reads = 0)
    /\ connErr = "error" => (Done /\ reads = 0)
    /\ getErr = "error" => Done

\* a read error ended the run after one connect and one read
C5_Witness ==
    Done /\ getErr = "error" /\ connects = 1 /\ reads = 1

\* C6: a connection that was opened is closed exactly once by the time
\* executeCheck is left, on every path; no run ends with it open, and none
\* closes a connection that was never opened.
C6_ClosedExactlyOnce ==
    /\ closes <= 1
    /\ conn = "open" => pc \in {"get", "interpret"}
    /\ Done => IF connErr = "nil"
               THEN closes = 1 /\ conn = "closed"
               ELSE closes = 0 /\ conn = "nil"

\* a type-check failure left the connection closed once
C6_Witness ==
    Done /\ FirstBadField = "internal temperature" /\ closes = 1 /\ conn = "closed"

\* C7: when a returned value has the wrong type, the run ends CRITICAL and
\* the only line printed names the first failing field in the order
\* location, internal, external; no temperature line is printed.
C7_TypeFailureNamesFirstField ==
    (Done /\ FirstBadField # "none") =>
        /\ status = CheckStateCritical
        /\ stdout = <<Line("CRITICAL", "failed to read " \o FirstBadField \o ".")>>

\* location and internal reading both had the wrong type, location was named
C7_Witness ==
    /\ Done /\ Len(result) = 3
    /\ ~IsBytes(result[1]) /\ ~IsInt(result[2]) /\ IsInt(result[3])
    /\ stdout = <<Line("CRITICAL", "failed to read location.")>>

\* C8: every run produces exactly one status line, and the severity the
\* line reports is the one the returned check state signals.
C8_ExactlyOneLine ==
    Done =>
        /\ Len(StatusLines) = 1
        /\ stdout # <<>> => StateOf(stdout[1].sev) = status

\* C9: with the read and type checks succeeded, the returned severity is the
\* same for every internal reading and every location given the same
\* external reading and thresholds; the internal reading is only reported.
C9_SeverityIgnoresInternal ==
    (Done /\ TypesOK) =>
        /\ \A l \in Locations, n \in Raws :
             interpret(<<OctetString(l), Integer(n), result[3]>>,
                       plugin.Warning, plugin.Critical).state = status
        /\ Len(stdout) = 1
        /\ stdout[1].text =
             temperatureLine(result[1].bytes, Celsius(result[2].int),
                             Celsius(result[3].int))

\* an internal reading above both thresholds was reported with severity OK
C9_Witness ==
    /\ Done /\ TypesOK
    /\ Celsius(result[2].int) > plugin.Critical
    /\ Celsius(result[2].int) > plugin.Warning
    /\ status = CheckStateOK

\* C10: every run ends with a classified severity or one of the seven named
\* errors, whatever connect returns and whatever the read carries.
C10_AlwaysClassified ==
    Done =>
        /\ ~panicked
        /\ status \in {CheckStateOK, CheckStateWarning, CheckStateCritical}

====
